---- MODULE Spec2Model ----
(***************************************************************************)
(* A model of swe-factory/evaluation/run_evaluation.py: the per-instance   *)
(* evaluation pipeline (run_instance_setup, run_instance_fail_to_pass),    *)
(* the thread-pool scheduler (run_instances), admission                    *)
(* (get_dataset_from_preds), grading (get_pred_report) and the aggregate   *)
(* report (make_run_report), driven by main over several runs that share   *)
(* one run id and one output directory.                                    *)
(***************************************************************************)
EXTENDS Integers, Sequences, FiniteSets, TLC

\* Bounds of the model.
NumTasks == 2
MaxRuns == 2
MaxWorkers == 2
MaxOutLen == 2

Tasks == 1..NumTasks
None == "None"

\* Marker strings, lines 40-41.
APPLY_PATCH_FAIL == ">>>>> Patch Apply Failed"
APPLY_PATCH_PASS == ">>>>> Patch Apply Passed"

\* The two execution modes, lines 70-71.
BASELINE == "not_apply_patch"
PATCHED == "apply_patch"

VARIABLES
  args,        \* the command line of main: run_id, predictions_path, cache_level, clean
  mainPc,      \* position of main: "start", "running", "drained", "reported", "aborted"
  run,         \* number of the current invocation of main (same run id, same output path)
  dual,        \* is_judge_fail2pass of the current run
  maxWorkers,  \* max_workers of the current run
  preds,       \* predictions: task -> "absent" or the prediction's model_patch
  dataset,     \* the instances get_dataset_from_preds returned (the submitted set)
  fut,         \* the executor's future of each task
  schedRaised, \* an exception left run_instances
  aggregate,   \* the buckets make_run_report computed in this run, or None
  inv,         \* per task: the locals and the trace of the current pipeline invocation
  fs,          \* per task: the files of log_dir
  docker,      \* per task: the container engine's live container and instance image
  ranOk        \* per task: the modes in which a pipeline invocation has returned normally

vars == <<args, mainPc, run, dual, maxWorkers, preds, dataset, fut, schedRaised,
          aggregate, inv, fs, docker, ranOk>>

mainVars == <<args, mainPc, run, dual, maxWorkers, preds, dataset, schedRaised, aggregate>>

----------------------------------------------------------------------------
\* File names of log_dir, lines 185, 189, 204, 239, 249.
LogName(m) == IF m = BASELINE THEN "run_instance_prev_apply.log"
              ELSE "run_instance_after_apply.log"
OutName(m) == IF m = BASELINE THEN "test_output_prev_apply.txt"
              ELSE "test_output_after_apply.txt"

\* What the eval script can print: a complete run ends with the exit-code
\* marker, a run cut by the timeout has only what was captured so far.
CompleteOutputs == { <<"text", "OMNIGRIL_EXIT_CODE=0">>, <<"text", "OMNIGRIL_EXIT_CODE=1">> }
PartialOutputs == { <<"text">> }

----------------------------------------------------------------------------
\* The files a pipeline invocation can leave in log_dir.
FileNames == { "report.json", "patch.diff", "eval.sh",
               LogName(BASELINE), LogName(PATCHED), OutName(BASELINE), OutName(PATCHED) }

\* log_dir before anything ran: no directory, no file.
EmptyDir == [ dir |-> FALSE, files |-> {}, report |-> {},
              log |-> [m \in {BASELINE, PATCHED} |-> {}],
              out |-> [m \in {BASELINE, PATCHED} |-> <<>>] ]

\* The locals of run_instance_setup, with the trace of what the invocation did:
\* ops are the calls made on the container engine, writes the files written.
NewInvocation(m, rm) ==
  [ pc |-> "entry", mode |-> m, rm_image |-> rm, container |-> None,
    ops |-> <<>>, writes |-> {}, failedAt |-> None, strict |-> "na", fuzzy |-> "na",
    timedOut |-> FALSE, graded |-> FALSE, ret |-> {}, resumed |-> FALSE, again |-> FALSE ]

NotStarted == [NewInvocation(None, FALSE) EXCEPT !.pc = "idle"]

\* The call is over: its locals are gone.
Over == [NewInvocation(None, FALSE) EXCEPT !.pc = "over"]

Count(seq, x) == Cardinality({ i \in DOMAIN seq : seq[i] = x })

----------------------------------------------------------------------------
\* get_pred_report, lines 73-138. patch is prediction["model_patch"]; outExists and
\* out are the test output file, logExists and log run_instance_after_apply.log.
FirstExitCode(out) ==
  LET hits == { i \in DOMAIN out : out[i] \in {"OMNIGRIL_EXIT_CODE=0", "OMNIGRIL_EXIT_CODE=1"} }
  IN  IF hits = {} THEN None
      ELSE LET i == CHOOSE k \in hits : \A j \in hits : k <= j
           IN  IF out[i] = "OMNIGRIL_EXIT_CODE=0" THEN "0" ELSE "1"

get_pred_report(patch, outExists, out, logExists, log) ==
  IF patch = None
  THEN [ patch_is_None |-> TRUE, patch_exists |-> FALSE,
         patch_successfully_applied |-> FALSE, resolved |-> FALSE ]
  ELSE LET test_output_content == IF outExists THEN out ELSE <<>>
           run_instance_log_content == IF logExists THEN log ELSE {}
       IN  [ patch_is_None |-> FALSE, patch_exists |-> TRUE,
             patch_successfully_applied |->
                 run_instance_log_content # {} /\ APPLY_PATCH_PASS \in run_instance_log_content,
             resolved |->
                 test_output_content # <<>> /\ FirstExitCode(test_output_content) = "0" ]

----------------------------------------------------------------------------
\* A pipeline whose log_dir lacks the instance id: every task's files are in one
\* directory.
Set_sharedLogDir(t, i, f, d) ==
  /\ inv' = [inv EXCEPT ![t] = i]
  /\ fs' = [u \in Tasks |-> f]
  /\ docker' = [docker EXCEPT ![t] = d]
  /\ ranOk' = IF i.pc = "returned" /\ i.failedAt = None
              THEN [ranOk EXCEPT ![t] = @ \cup {i.mode}]
              ELSE ranOk

\* One step of task t's pipeline: its locals, its log_dir and its engine state.
Set(t, i, f, d) ==
  /\ inv' = [inv EXCEPT ![t] = i]
  /\ fs' = [fs EXCEPT ![t] = f]
  /\ docker' = [docker EXCEPT ![t] = d]
  /\ ranOk' = IF i.pc = "returned" /\ i.failedAt = None
              THEN [ranOk EXCEPT ![t] = @ \cup {i.mode}]
              ELSE ranOk

\* A file of log_dir written (created or truncated) by the invocation.
Wrote(i, name) == [i EXCEPT !.writes = @ \cup {name}]
Created(f, name) == [f EXCEPT !.files = @ \cup {name}]

\* logger.info: one more line in the invocation's log file.
LogLine(f, m, line) == [f EXCEPT !.log[m] = @ \cup {line}]

\* A call on the container engine.
Called(i, op) == [i EXCEPT !.ops = Append(@, op)]

\* A pipeline that never looks for report.json.
ReportExists_never(f) == FALSE

\* Line 190: report_path.exists().
ReportExists(f) == "report.json" \in f.files

\* A pipeline whose handlers return at once: the finally block is left out on the
\* exception paths.
AfterException_skipsFinally(i, where) == [i EXCEPT !.pc = "returned", !.failedAt = where]

\* Lines 274-285: both handlers log the error and fall through to the finally
\* block; nothing is returned and nothing is raised again.
AfterException(i, where) == [i EXCEPT !.pc = "finally", !.failedAt = where]

Caught(t, i, f, d, where) ==
  Set(t, AfterException(i, where), LogLine(f, i.mode, "info"), d)

\* An entry that sets up the logger before it looks for report.json: the log file
\* is opened anew on every call.
ReturnStored_afterLogger(t, i, f) ==
  Set(t, Wrote([i EXCEPT !.pc = "returned", !.ret = f.report, !.resumed = TRUE],
               LogName(i.mode)),
      [Created(f, LogName(i.mode)) EXCEPT !.dir = TRUE, !.log[i.mode] = {}], docker[t])

\* Lines 190-191: report.json is there: the stored report is returned at once.
ReturnStored(t, i, f) ==
  Set(t, [i EXCEPT !.pc = "returned", !.ret = f.report, !.resumed = TRUE],
      [f EXCEPT !.dir = TRUE], docker[t])

\* Lines 166-192: create log_dir, return the stored report when report.json is
\* there, otherwise set up the logger (which opens the mode's log file anew).
\* mkdir can fail only when it has a directory to create; that exception is raised
\* before the try block and leaves run_instance_setup.
run_instance_setup_entry(t) ==
  /\ inv[t].pc = "entry"
  /\ LET i == inv[t]
         f == fs[t]
     IN  \E mkdir \in (IF f.dir THEN {"ok"} ELSE {"ok", "raise"}) :
           IF mkdir = "raise"
           THEN Set(t, [i EXCEPT !.pc = "raised", !.failedAt = "mkdir"], f, docker[t])
           ELSE IF ReportExists(f)
           THEN ReturnStored(t, i, f)
           ELSE Set(t, Wrote([i EXCEPT !.pc = "acquire"], LogName(i.mode)),
                    [Created(f, LogName(i.mode)) EXCEPT !.dir = TRUE, !.log[i.mode] = {}],
                    docker[t])
  /\ UNCHANGED <<mainVars, fut>>

\* Lines 198-201: build_setup_container, then container.start(). A failed build
\* leaves no container behind and the local container stays None; a failed start
\* leaves the created container in the engine.
Acquire(t) ==
  /\ inv[t].pc = "acquire"
  /\ LET i == Called(inv[t], "build_setup_container")
         f == fs[t]
     IN  \E build \in {"ok", "raise"}, start \in {"ok", "raise"} :
           IF build = "raise"
           THEN start = "ok" /\ Caught(t, i, f, docker[t], "build")
           ELSE LET j == Called([i EXCEPT !.container = "container"], "start")
                    d == [docker[t] EXCEPT !.live = TRUE, !.image = TRUE]
                IN  IF start = "raise"
                    THEN Caught(t, j, f, d, "start")
                    ELSE Set(t, [j EXCEPT !.pc = "patch"], LogLine(f, i.mode, "info"), d)
  /\ UNCHANGED <<mainVars, fut>>

\* Line 210: the patch is applied in every mode but the baseline one.
AppliesPatch(m) == m # BASELINE

\* Lines 217 and 226: an apply attempt failed when its exit code is not 0.
ApplyFailed(rc) == rc # "0"

\* The diagnostic output of the two apply commands, as it appears in a log line.
StrictOutput == "git apply output"
FuzzyOutput == "patch --fuzz output"

\* Lines 212 and 221: both attempts assign the same local, val; after the fuzzy
\* attempt val.output is the fuzzy attempt's output, the strict one's is gone.
val_output(i) == IF i.fuzzy # "na" THEN FuzzyOutput ELSE StrictOutput

\* A patch stage that logs the failure of both attempts and goes on to the eval
\* script all the same.
PatchNotApplied_goesOn(t, i, f, d) ==
  Set(t, [i EXCEPT !.pc = "exec"], LogLine(f, i.mode, APPLY_PATCH_FAIL), d)

\* Lines 226-232: both attempts failed: APPLY_PATCH_FAIL is logged and the
\* EvaluationError raised is caught by the handler of line 274.
PatchNotApplied(t, i, f, d) ==
  Caught(t, i, LogLine(LogLine(f, i.mode, APPLY_PATCH_FAIL), i.mode, val_output(i)), d,
         "patch_not_applied")

\* Lines 233-236: the patch is applied, APPLY_PATCH_PASS is logged and the
\* pipeline goes on to the eval script.
PatchApplied(t, i, f, d) ==
  Set(t, [i EXCEPT !.pc = "exec"],
      LogLine(LogLine(f, i.mode, APPLY_PATCH_PASS), i.mode, val_output(i)), d)

\* Lines 217-236: the fuzzy attempt after a failed strict one.
FuzzyApply(t, i, f, d) ==
  \E rc \in {"0", "1", "raise"} :
    LET j == [Called(i, "patch --fuzz") EXCEPT !.fuzzy = rc]
        g == LogLine(f, i.mode, "info")
    IN  IF rc = "raise" THEN Caught(t, j, g, d, "fuzzy_apply")
        ELSE IF ApplyFailed(rc) THEN PatchNotApplied(t, j, g, d)
        ELSE PatchApplied(t, j, g, d)

\* A patch stage that runs the fuzzy attempt whatever the strict one returned.
StrictApply_alwaysFuzzy(t, i, f, d) ==
  \E rc \in {"0", "1", "raise"} :
    LET j == [Called(i, "git apply") EXCEPT !.strict = rc]
    IN  IF rc = "raise" THEN Caught(t, j, f, d, "strict_apply")
        ELSE FuzzyApply(t, j, f, d)

\* Lines 212-236: the strict attempt, and the fuzzy one if it failed.
StrictApply(t, i, f, d) ==
  \E rc \in {"0", "1", "raise"} :
    LET j == [Called(i, "git apply") EXCEPT !.strict = rc]
    IN  IF rc = "raise" THEN Caught(t, j, f, d, "strict_apply")
        ELSE IF ApplyFailed(rc) THEN FuzzyApply(t, j, f, d)
        ELSE PatchApplied(t, j, f, d)

\* Lines 203-236: write patch.diff, copy it into the container and, in patched
\* mode, apply it.
PatchStage(t) ==
  /\ inv[t].pc = "patch"
  /\ LET i == Called(Wrote(inv[t], "patch.diff"), "copy_to_container patch")
         f == LogLine(Created(fs[t], "patch.diff"), inv[t].mode, "info")
         d == docker[t]
     IN  \E copy \in {"ok", "raise"} :
           IF copy = "raise" THEN Caught(t, i, f, d, "copy_patch")
           ELSE IF AppliesPatch(i.mode) THEN StrictApply(t, i, f, d)
           ELSE Set(t, [i EXCEPT !.pc = "exec"], f, d)
  /\ UNCHANGED <<mainVars, fut>>

\* exec_run_with_timeout (docker_utils): the eval script runs to its end, or is
\* cut at the timeout and the call returns what was captured by then, or the
\* engine call raises.
exec_run_with_timeout ==
  [kind : {"complete"}, out : CompleteOutputs] \cup
  [kind : {"timeout"}, out : PartialOutputs] \cup
  [kind : {"raise"}, out : {<<>>}]

\* Lines 248-253: the output is written to the mode's test output file.
WriteTestOutput(f, m, out) ==
  [Created(f, OutName(m)) EXCEPT !.out[m] = out]

\* A pipeline that grades whatever the mode.
Grades_everyMode(m) == TRUE

\* Lines 255-273: grading is done in every mode but the baseline one, which
\* returns None as its report.
Grades(m) == m # BASELINE

\* A pipeline that takes the timeout for an error: nothing is written and the
\* handler of line 280 is entered.
AfterExec_timeoutRaises(t, i, f, d, r) ==
  IF r.kind = "timeout"
  THEN Caught(t, [i EXCEPT !.timedOut = TRUE], f, d, "exec")
  ELSE Set(t, [Wrote(i, OutName(i.mode)) EXCEPT
                 !.pc = IF Grades(i.mode) THEN "grade" ELSE "finally"],
           LogLine(WriteTestOutput(f, i.mode, r.out), i.mode, "info"), d)

\* Lines 247-253, then 270-273 in baseline mode: whatever exec_run_with_timeout
\* returned, complete or cut by the timeout, is decoded and written to the test
\* output file; the patched mode goes on to grading.
AfterExec(t, i, f, d, r) ==
  LET k == [Wrote(i, OutName(i.mode)) EXCEPT
              !.timedOut = (r.kind = "timeout"),
              !.pc = IF Grades(i.mode) THEN "grade" ELSE "finally"]
  IN  Set(t, k, LogLine(WriteTestOutput(f, i.mode, r.out), i.mode, "info"), d)

\* Lines 239-253: write eval.sh, copy it into the
\* container, run it under the timeout and write its output.
Exec(t) ==
  /\ inv[t].pc = "exec"
  /\ LET i == Called(Wrote(inv[t], "eval.sh"), "copy_to_container eval")
         f == LogLine(Created(fs[t], "eval.sh"), inv[t].mode, "info")
         d == docker[t]
     IN  \E copy \in {"ok", "raise"}, r \in exec_run_with_timeout :
           IF copy = "raise"
           THEN r.kind = "raise" /\ Caught(t, i, f, d, "copy_eval")
           ELSE LET j == Called(i, "exec_run_with_timeout")
                IN  IF r.kind = "raise" THEN Caught(t, j, f, d, "exec")
                    ELSE AfterExec(t, j, f, d, r)
  /\ UNCHANGED <<mainVars, fut>>

\* Lines 255-273: grade the test output with get_pred_report, write the report to
\* report.json and return it. Reading the two files back can raise (they are read
\* as UTF-8), which the handler of line 280 catches.
Grade(t) ==
  /\ inv[t].pc = "grade"
  /\ LET i == [inv[t] EXCEPT !.graded = TRUE]
         f == LogLine(fs[t], inv[t].mode, "info")
         d == docker[t]
         report == get_pred_report(preds[t], OutName(i.mode) \in f.files, f.out[i.mode],
                                   LogName(PATCHED) \in f.files, f.log[PATCHED])
     IN  \E read \in {"ok", "raise"} :
           IF read = "raise" THEN Caught(t, i, f, d, "grading")
           ELSE Set(t, [Wrote(i, "report.json") EXCEPT !.pc = "finally", !.ret = {report}],
                    [Created(f, "report.json") EXCEPT !.report = {report}], d)
  /\ UNCHANGED <<mainVars, fut>>

\* cleanup_container (docker_utils): stops and removes the container; a no-op
\* when the container is None.
cleanup_container(d, container) ==
  IF container = None THEN d ELSE [d EXCEPT !.live = FALSE]

\* remove_image (docker_utils).
remove_image(d) == [d EXCEPT !.image = FALSE]

\* A finally block that removes the image whatever rm_image is.
Finally_alwaysRemoves(t) ==
  /\ inv[t].pc = "finally"
  /\ LET i == Called(inv[t], "cleanup_container")
         d == cleanup_container(docker[t], inv[t].container)
     IN  Set(t, [Called(i, "remove_image") EXCEPT !.pc = "returned"], fs[t], remove_image(d))
  /\ UNCHANGED <<mainVars, fut>>

\* Lines 286-291, the finally block: release the container, remove the image if
\* rm_image, close the logger. The invocation then returns what it had to return.
Finally(t) ==
  /\ inv[t].pc = "finally"
  /\ LET i == Called(inv[t], "cleanup_container")
         d == cleanup_container(docker[t], inv[t].container)
     IN  IF i.rm_image
         THEN Set(t, [Called(i, "remove_image") EXCEPT !.pc = "returned"], fs[t], remove_image(d))
         ELSE Set(t, [i EXCEPT !.pc = "returned"], fs[t], d)
  /\ UNCHANGED <<mainVars, fut>>

----------------------------------------------------------------------------
\* Predictions: a task has no prediction, or a prediction whose model_patch is
\* None, empty or a diff.
NoPrediction == "absent"
Patches == { None, "", "diff" }

\* get_dataset_from_preds, lines 570-668, with instance_ids unset, version_spec
\* 'all' and exclude_completed left at True: the instances of the dataset that have
\* a prediction with a non-empty patch and are not completed, where completed means
\* that both test output files are there.
prediction_ids == { t \in Tasks : preds[t] # NoPrediction }

completed_ids ==
  { t \in prediction_ids : /\ OutName(BASELINE) \in fs[t].files
                           /\ OutName(PATCHED) \in fs[t].files }

empty_setup_ids == { t \in prediction_ids : preds[t] = "" \/ preds[t] = None }

\* An admission without the filter on empty_setup_ids.
get_dataset_from_preds_keepsEmpty ==
  { t \in Tasks \ completed_ids : t \in prediction_ids }

get_dataset_from_preds ==
  { t \in Tasks \ completed_ids : t \in prediction_ids /\ t \notin empty_setup_ids }

----------------------------------------------------------------------------
\* make_run_report, lines 690-732: the loop over full_dataset.
NoBuckets == [ completed_ids |-> {}, resolved_ids |-> {}, unresolved_ids |-> {},
               error_ids |-> {}, incomplete_ids |-> {}, empty_patch_ids |-> {} ]

\* A loop body that counts an instance as completed before it looks for the
\* report file.
ByReportFile_completedFirst(t, acc) ==
  LET done == [acc EXCEPT !.completed_ids = @ \cup {t}]
  IN  IF "report.json" \in fs[t].files
      THEN LET report == CHOOSE r \in fs[t].report : TRUE
           IN  IF report.resolved
               THEN [done EXCEPT !.resolved_ids = @ \cup {t}]
               ELSE [done EXCEPT !.unresolved_ids = @ \cup {t}]
      ELSE [done EXCEPT !.error_ids = @ \cup {t}]

\* Lines 721-732: with a report file the instance is completed, and resolved or
\* unresolved by the report's field; without one it is an error.
ByReportFile(t, acc) ==
  IF "report.json" \in fs[t].files
  THEN LET report == CHOOSE r \in fs[t].report : TRUE
           done == [acc EXCEPT !.completed_ids = @ \cup {t}]
       IN  IF report.resolved
           THEN [done EXCEPT !.resolved_ids = @ \cup {t}]
           ELSE [done EXCEPT !.unresolved_ids = @ \cup {t}]
  ELSE [acc EXCEPT !.error_ids = @ \cup {t}]

\* A loop body whose empty-patch branch lacks its continue statement.
Classify_noContinue(t, acc) ==
  IF preds[t] = NoPrediction
  THEN [acc EXCEPT !.incomplete_ids = @ \cup {t}]
  ELSE IF preds[t] \in {"", None}
  THEN ByReportFile(t, [acc EXCEPT !.empty_patch_ids = @ \cup {t}])
  ELSE ByReportFile(t, acc)

\* Lines 702-732: one pass of the loop body, with its two continue statements.
Classify(t, acc) ==
  IF preds[t] = NoPrediction
  THEN [acc EXCEPT !.incomplete_ids = @ \cup {t}]
  ELSE IF preds[t] \in {"", None}
  THEN [acc EXCEPT !.empty_patch_ids = @ \cup {t}]
  ELSE ByReportFile(t, acc)

RECURSIVE ReportLoop(_, _)
ReportLoop(t, acc) ==
  IF t > NumTasks THEN acc ELSE ReportLoop(t + 1, Classify(t, acc))

make_run_report == ReportLoop(1, NoBuckets)

----------------------------------------------------------------------------
pipeVars == <<inv, fs, docker, ranOk>>

Running == { t \in Tasks : fut[t] = "running" }
Pending == { t \in Tasks : fut[t] = "pending" }

\* The command line, lines 929-971. predictions_path is a .json file that loads
\* ("json"), a .json file that does not ("bad_json"), a .jsonl file one line of
\* which is not JSON ("bad_jsonl_line") or a path with another suffix
\* ("other_suffix"); foreign says that the file also holds predictions for
\* instance ids that are not in the dataset.
DefaultArgs == [ run_id |-> "run", predictions_path |-> "json", foreign |-> FALSE,
                 cache_level |-> "env", clean |-> FALSE ]

AllArgs == [ run_id : {"", "run"},
             predictions_path : {"json", "bad_json", "bad_jsonl_line", "other_suffix"},
             foreign : BOOLEAN,
             cache_level : {"env", "instance"},
             clean : BOOLEAN ]

\* Lines 871 and 877-907: what stops main before the dataset is computed: the
\* assertion on run_id, the RuntimeError of a file that cannot be loaded and the
\* ValueError of an unknown suffix. A line of a .jsonl file that is not JSON is
\* skipped with a warning (lines 899-902).
ConfigError(a) ==
  \/ a.run_id = ""
  \/ a.predictions_path \in {"bad_json", "other_suffix"}

\* main, lines 871-921, and run_instances up to the submission of every test
\* spec, lines 482-523 and 537-557: the run's arguments are read, the dataset is
\* computed and one future per instance of it is submitted.
MainStart ==
  /\ mainPc = "start"
  /\ \E d \in BOOLEAN, w \in 1..MaxWorkers :
       /\ dual' = d
       /\ maxWorkers' = w
  /\ dataset' = IF ConfigError(args) THEN {} ELSE get_dataset_from_preds
  /\ mainPc' = IF ConfigError(args) THEN "aborted"
               ELSE IF dataset' = {} THEN "drained" ELSE "running"
  /\ fut' = [t \in Tasks |-> IF t \in dataset' THEN "pending" ELSE "none"]
  /\ inv' = [t \in Tasks |-> NotStarted]
  /\ UNCHANGED <<args, run, preds, schedRaised, aggregate, fs, docker, ranOk>>

\* A call of run_instance_setup; again records that an earlier invocation in the
\* same mode has returned normally for this task.
Call(t, i) == [i EXCEPT !.again = (i.mode \in ranOk[t])]

\* A run_instance_fail_to_pass that hands the caller's rm_image to the baseline run
\* too.
FirstCall_removesImage ==
  IF dual THEN NewInvocation(BASELINE, TRUE) ELSE NewInvocation(PATCHED, TRUE)

\* Lines 58-71 and 505-521, 538-555: the first call of run_instance_setup made for
\* a future: the baseline run without image removal in fail-to-pass mode, the
\* patched run with rm_image True otherwise.
FirstCall == IF dual THEN NewInvocation(BASELINE, FALSE) ELSE NewInvocation(PATCHED, TRUE)

\* A pool that starts a thread for every submitted future.
WorkerStart_unbounded(t) ==
  /\ mainPc = "running"
  /\ fut[t] = "pending"
  /\ \A u \in Pending : t <= u
  /\ fut' = [fut EXCEPT ![t] = "running"]
  /\ inv' = [inv EXCEPT ![t] = Call(t, FirstCall)]
  /\ UNCHANGED <<mainVars, fs, docker, ranOk>>

\* Lines 502-523 and 535-557: a free worker of the pool takes the oldest pending
\* future; at most max_workers futures run at a time.
WorkerStart(t) ==
  /\ mainPc = "running"
  /\ fut[t] = "pending"
  /\ \A u \in Pending : t <= u
  /\ Cardinality(Running) < maxWorkers
  /\ fut' = [fut EXCEPT ![t] = "running"]
  /\ inv' = [inv EXCEPT ![t] = Call(t, FirstCall)]
  /\ UNCHANGED <<mainVars, fs, docker, ranOk>>

\* A run_instance_fail_to_pass that makes the patched run only after a baseline
\* run without error.
SecondCall_afterSuccess(t) ==
  /\ fut[t] = "running"
  /\ dual
  /\ inv[t].mode = BASELINE
  /\ inv[t].pc = "returned"
  /\ inv[t].failedAt = None
  /\ inv' = [inv EXCEPT ![t] = Call(t, NewInvocation(PATCHED, TRUE))]
  /\ UNCHANGED <<mainVars, fut, fs, docker, ranOk>>

\* A run_instance_fail_to_pass that starts the patched run while the baseline run
\* is still before its finally block.
SecondCall_beforeRelease(t) ==
  /\ fut[t] = "running"
  /\ dual
  /\ inv[t].mode = BASELINE
  /\ inv[t].pc \in {"finally", "returned"}
  /\ inv' = [inv EXCEPT ![t] = Call(t, NewInvocation(PATCHED, TRUE))]
  /\ UNCHANGED <<mainVars, fut, fs, docker, ranOk>>

\* Line 71: after the baseline run returned, run_instance_fail_to_pass makes the
\* patched run with the caller's rm_image.
SecondCall(t) ==
  /\ fut[t] = "running"
  /\ dual
  /\ inv[t].mode = BASELINE
  /\ inv[t].pc = "returned"
  /\ inv' = [inv EXCEPT ![t] = Call(t, NewInvocation(PATCHED, TRUE))]
  /\ UNCHANGED <<mainVars, fut, fs, docker, ranOk>>

\* The worker's call has returned, or has raised: the future is done.
FutureDone(t) ==
  /\ fut[t] = "running"
  /\ \/ inv[t].pc = "raised"
     \/ inv[t].pc = "returned" /\ ~(dual /\ inv[t].mode = BASELINE)
  /\ fut' = [fut EXCEPT ![t] = IF inv[t].pc = "raised" THEN "raised" ELSE "done"]
  /\ inv' = [inv EXCEPT ![t] = Over]
  /\ UNCHANGED <<mainVars, fs, docker, ranOk>>

\* A loop over the futures that lets a future's exception through.
Reraises_always(state) == TRUE

\* Lines 525-532 and 559-566: what run_instances does with a future's exception:
\* it prints the traceback and goes on with the next future.
Reraises(state) == FALSE

\* Lines 525-532 and 559-566: as_completed yields a finished future, the progress
\* bar advances and future.result() is taken inside try/except.
Collect(t) ==
  /\ mainPc = "running"
  /\ fut[t] \in {"done", "raised"}
  /\ IF Reraises(fut[t]) /\ fut[t] = "raised"
     THEN /\ schedRaised' = TRUE
          /\ mainPc' = "aborted"
          /\ fut' = [fut EXCEPT ![t] = "collected"]
     ELSE /\ fut' = [fut EXCEPT ![t] = IF fut[t] = "raised" THEN "caught" ELSE "collected"]
          /\ UNCHANGED <<mainPc, schedRaised>>
  /\ UNCHANGED <<args, run, dual, maxWorkers, preds, dataset, aggregate, pipeVars>>

\* A loop over the futures that is left at the first future yielded, in an
\* executor that is shut down without waiting.
Drain_atFirstFuture ==
  /\ mainPc = "running"
  /\ \E t \in dataset : fut[t] \in {"collected", "caught"}
  /\ mainPc' = "drained"
  /\ UNCHANGED <<args, run, dual, maxWorkers, preds, dataset, fut, schedRaised, aggregate, pipeVars>>

\* A loop over the futures that is left only when every future succeeded.
Drain_needsSuccess ==
  /\ mainPc = "running"
  /\ \A t \in dataset : fut[t] = "collected"
  /\ mainPc' = "drained"
  /\ UNCHANGED <<args, run, dual, maxWorkers, preds, dataset, fut, schedRaised, aggregate, pipeVars>>

\* Line 567: every future has been yielded and the executor is shut down:
\* "All instances run."
Drain ==
  /\ mainPc = "running"
  /\ \A t \in dataset : fut[t] \in {"collected", "caught"}
  /\ mainPc' = "drained"
  /\ UNCHANGED <<args, run, dual, maxWorkers, preds, dataset, fut, schedRaised, aggregate, pipeVars>>

\* Lines 923-925: the aggregate report is made.
MakeReport ==
  /\ mainPc = "drained"
  /\ aggregate' = make_run_report
  /\ mainPc' = "reported"
  /\ UNCHANGED <<args, run, dual, maxWorkers, preds, dataset, fut, schedRaised, pipeVars>>

\* main is run again with the same run id, output path and predictions.
Resume ==
  /\ mainPc = "reported"
  /\ run < MaxRuns
  /\ run' = run + 1
  /\ mainPc' = "start"
  /\ aggregate' = NoBuckets
  /\ dataset' = {}
  /\ fut' = [t \in Tasks |-> "none"]
  /\ inv' = [t \in Tasks |-> NotStarted]
  /\ UNCHANGED <<args, dual, maxWorkers, preds, schedRaised, fs, docker, ranOk>>

\* The process is terminated from outside while main is running: main and every
\* worker thread stop where they are, no handler and no finally block runs; the
\* files written so far and the containers stay as they are.
Kill ==
  /\ mainPc \in {"running", "drained"}
  /\ mainPc' = "killed"
  /\ fut' = [t \in Tasks |-> "none"]
  /\ inv' = [t \in Tasks |-> Over]
  /\ UNCHANGED <<args, run, dual, maxWorkers, preds, dataset, schedRaised, aggregate,
                 fs, docker, ranOk>>

\* main is started again after a termination, with the same run id, output path
\* and predictions.
Restart ==
  /\ mainPc = "killed"
  /\ run < MaxRuns
  /\ run' = run + 1
  /\ mainPc' = "start"
  /\ dataset' = {}
  /\ inv' = [t \in Tasks |-> NotStarted]
  /\ UNCHANGED <<args, dual, maxWorkers, preds, fut, schedRaised, aggregate, fs, docker, ranOk>>

----------------------------------------------------------------------------
\* A first run on a fresh output directory.
Fresh ==
  /\ mainPc = "start"
  /\ run = 1
  /\ dual = FALSE
  /\ maxWorkers = 1
  /\ preds \in [Tasks -> {NoPrediction} \cup Patches]
  /\ dataset = {}
  /\ fut = [t \in Tasks |-> "none"]
  /\ schedRaised = FALSE
  /\ aggregate = NoBuckets
  /\ inv = [t \in Tasks |-> NotStarted]
  /\ fs = [t \in Tasks |-> EmptyDir]
  /\ docker = [t \in Tasks |-> [live |-> FALSE, image |-> FALSE]]
  /\ ranOk = [t \in Tasks |-> {}]

Init == Fresh /\ args = DefaultArgs

Next ==
  \/ MainStart
  \/ \E t \in Tasks : WorkerStart(t)
  \/ \E t \in Tasks : run_instance_setup_entry(t)
  \/ \E t \in Tasks : Acquire(t)
  \/ \E t \in Tasks : PatchStage(t)
  \/ \E t \in Tasks : Exec(t)
  \/ \E t \in Tasks : Grade(t)
  \/ \E t \in Tasks : Finally(t)
  \/ \E t \in Tasks : SecondCall(t)
  \/ \E t \in Tasks : FutureDone(t)
  \/ \E t \in Tasks : Collect(t)
  \/ Drain
  \/ MakeReport

\* One run of main on a fresh output directory.
Spec == Init /\ [][Next]_vars

\* main run up to MaxRuns times with the same run id and output directory, on
\* predictions for the first task only.
InitResume == Init /\ \A t \in Tasks \ {1} : preds[t] = NoPrediction

NextResume == Next \/ Resume

SpecResume == InitResume /\ [][NextResume]_vars

\* Runs of main on predictions for the first task only, each of which can be
\* terminated from outside and started again.
NextKill == Next \/ Kill \/ Restart

SpecKill == InitResume /\ [][NextKill]_vars

\* One run of main on a prediction for the first task whose model_patch can also
\* be the text "none" that get_none_predictions gives (lines 835, 843).
NonePatch == "none"

InitNone ==
  /\ args = DefaultArgs
  /\ mainPc = "start"
  /\ run = 1
  /\ dual = FALSE
  /\ maxWorkers = 1
  /\ \E p \in Patches \cup {NonePatch} :
        preds = [t \in Tasks |-> IF t = 1 THEN p ELSE NoPrediction]
  /\ dataset = {}
  /\ fut = [t \in Tasks |-> "none"]
  /\ schedRaised = FALSE
  /\ aggregate = NoBuckets
  /\ inv = [t \in Tasks |-> NotStarted]
  /\ fs = [t \in Tasks |-> EmptyDir]
  /\ docker = [t \in Tasks |-> [live |-> FALSE, image |-> FALSE]]
  /\ ranOk = [t \in Tasks |-> {}]

SpecNone == InitNone /\ [][Next]_vars

\* One run of main in which main and every worker thread that can take a step
\* eventually takes one: every call on the container engine returns, raises or
\* times out.
SpecFair == Spec /\ WF_vars(Next)

\* get_pred_report on its own: every log text and every test output text up to
\* MaxOutLen pieces, each file there or not, for every model_patch.
LogTexts == SUBSET {"info", APPLY_PATCH_PASS, APPLY_PATCH_FAIL}

OutputTexts ==
  UNION { [1..n -> {"text", "OMNIGRIL_EXIT_CODE=0", "OMNIGRIL_EXIT_CODE=1"}] : n \in 0..MaxOutLen }

GradingDir(log, hasLog, out, hasOut) ==
  [EmptyDir EXCEPT !.dir = TRUE,
                   !.files = (IF hasLog THEN {LogName(PATCHED)} ELSE {})
                               \cup (IF hasOut THEN {OutName(PATCHED)} ELSE {}),
                   !.log[PATCHED] = IF hasLog THEN log ELSE {},
                   !.out[PATCHED] = IF hasOut THEN out ELSE <<>>]

InitGrading ==
  /\ args = DefaultArgs
  /\ mainPc = "grading"
  /\ run = 1
  /\ dual = FALSE
  /\ maxWorkers = 1
  /\ \E p \in Patches : preds = [t \in Tasks |-> IF t = 1 THEN p ELSE NoPrediction]
  /\ dataset = {}
  /\ fut = [t \in Tasks |-> "none"]
  /\ schedRaised = FALSE
  /\ aggregate = NoBuckets
  /\ inv = [t \in Tasks |-> NotStarted]
  /\ \E log \in LogTexts, out \in OutputTexts, hasLog, hasOut \in BOOLEAN :
        fs = [t \in Tasks |-> IF t = 1 THEN GradingDir(log, hasLog, out, hasOut)
                                       ELSE EmptyDir]
  /\ docker = [t \in Tasks |-> [live |-> FALSE, image |-> FALSE]]
  /\ ranOk = [t \in Tasks |-> {}]

\* Lines 257-269: get_pred_report is applied to the test output file and the
\* patched log, and its report is written to report.json.
GradeFiles(t) ==
  /\ mainPc = "grading"
  /\ fs[t].dir
  /\ "report.json" \notin fs[t].files
  /\ LET f == fs[t]
         report == get_pred_report(preds[t], OutName(PATCHED) \in f.files, f.out[PATCHED],
                                   LogName(PATCHED) \in f.files, f.log[PATCHED])
     IN  fs' = [fs EXCEPT ![t] = [Created(f, "report.json") EXCEPT !.report = {report}]]
  /\ UNCHANGED <<mainVars, fut, inv, docker, ranOk>>

NextGrading == \E t \in Tasks : GradeFiles(t)

SpecGrading == InitGrading /\ [][NextGrading]_vars

\* One run of main under every command line, on predictions for the first task
\* only.
InitArgs ==
  /\ Fresh
  /\ args \in AllArgs
  /\ \A t \in Tasks \ {1} : preds[t] = NoPrediction

SpecArgs == InitArgs /\ [][Next]_vars

----------------------------------------------------------------------------
\* Properties of the pipeline, the scheduler and the aggregate report.

\* No invocation of run_instance_setup is in progress for task t.
Quiet(t) == inv[t].pc \in {"idle", "entry", "returned", "raised", "over"}

\* C1. Resource safety: every invocation of run_instance_setup that got past the
\* report.json check has, when it returns, called cleanup_container exactly once,
\* whichever step failed (build, start, patch copy, either apply attempt, the eval
\* script's copy, execution or timeout, grading); it never calls it twice, and
\* no container of the task is held while no invocation is in progress.
C1_ResourceSafety ==
  \A t \in Tasks :
    /\ Count(inv[t].ops, "cleanup_container") <= 1
    /\ (inv[t].pc = "returned" /\ ~inv[t].resumed)
          => /\ Count(inv[t].ops, "cleanup_container") = 1
             /\ inv[t].ops[Len(inv[t].ops) - (IF inv[t].rm_image THEN 1 ELSE 0)]
                   = "cleanup_container"
    /\ Quiet(t) => ~docker[t].live

\* An invocation whose container was created but failed to start has returned.
C1_Witness ==
  \E t \in Tasks :
    /\ inv[t].pc = "returned"
    /\ inv[t].failedAt = "start"
    /\ inv[t].container # None
    /\ Count(inv[t].ops, "cleanup_container") = 1

\* C2. Idempotent resumption: an invocation that found report.json returns the
\* stored report and has made no call on the container engine and written no file.
C2_IdempotentResumption ==
  \A t \in Tasks :
    inv[t].resumed =>
      /\ inv[t].pc = "returned"
      /\ inv[t].ret = fs[t].report
      /\ inv[t].ret # {}
      /\ inv[t].ops = <<>>
      /\ inv[t].writes = {}
      /\ ~docker[t].live

\* A patched-mode call of a later run has found the report of an earlier one.
C2_Witness ==
  \E t \in Tasks : run > 1 /\ inv[t].resumed /\ inv[t].mode = PATCHED

\* C3. Idempotence per mode: an invocation in a mode in which an earlier invocation
\* for the same task has already returned normally makes no call on the container
\* engine and writes no file, in baseline mode as in patched mode.
C3_IdempotencePerMode ==
  \A t \in Tasks :
    (inv[t].pc = "returned" /\ inv[t].again)
       => inv[t].ops = <<>> /\ inv[t].writes = {}

FiveBuckets(a) ==
  << a.incomplete_ids, a.empty_patch_ids, a.resolved_ids, a.unresolved_ids, a.error_ids >>

C5_PartitionCompleteness ==
  mainPc = "reported" =>
    LET b == FiveBuckets(aggregate)
    IN  /\ \A j, k \in 1..5 : j # k => b[j] \cap b[k] = {}
        /\ UNION { b[j] : j \in 1..5 } = Tasks

\* A report over one task with an empty patch and one that ran into an error.
C5_Witness ==
  /\ mainPc = "reported"
  /\ aggregate.empty_patch_ids # {}
  /\ aggregate.error_ids # {}

\* C6. Failure containment: no exception leaves run_instances, and when it is
\* through, every submitted task's future has run to its end and been collected,
\* whatever failed or was raised in the others.
C6_FailureContainment ==
  /\ ~schedRaised
  /\ mainPc # "aborted"
  /\ mainPc \in {"drained", "reported"}
        => \A t \in dataset : fut[t] \in {"collected", "caught"} /\ inv[t].pc = "over"
  /\ \A t \in Tasks : fut[t] # "none" => t \in dataset

\* One task's pipeline raised before the other was through, and the other one
\* still wrote its report.
C6_Witness ==
  \E t, u \in Tasks :
    /\ mainPc = "drained"
    /\ fut[t] = "caught"
    /\ fut[u] = "collected"
    /\ "report.json" \in fs[u].files

\* The patched run's log says that both apply attempts failed.
PatchFailed(t) == APPLY_PATCH_FAIL \in fs[t].log[PATCHED]

\* C7. Patch failure verdict: when both apply attempts failed in patched mode, a
\* report with patch_successfully_applied = false and resolved = false is
\* recorded, the aggregate report counts the task as unresolved and not as an
\* error, and a resumed run does not admit the task again.
C7_PatchFailureVerdict ==
  \A t \in Tasks :
    /\ (inv[t].pc = "returned" /\ inv[t].failedAt = "patch_not_applied")
          => /\ "report.json" \in fs[t].files
             /\ \A r \in fs[t].report : ~r.patch_successfully_applied /\ ~r.resolved
    /\ (mainPc = "reported" /\ PatchFailed(t))
          => /\ t \in aggregate.unresolved_ids
             /\ t \notin aggregate.error_ids
             /\ t \notin get_dataset_from_preds

Did(i, op) == \E k \in DOMAIN i.ops : i.ops[k] = op

ApplyAttempts(i) == Count(i.ops, "git apply") + Count(i.ops, "patch --fuzz")

Before(ops, a, b) ==
  \A k \in DOMAIN ops : ops[k] = b => \E j \in 1..(k - 1) : ops[j] = a

\* C8. Patch fallback: an invocation makes at most two apply attempts, the strict
\* one first and only in patched mode; the fuzzy one is made exactly when the strict
\* one returned a non-zero exit code; and once either has returned 0 the pipeline
\* is at the eval script, not in the failure handler.
C8_PatchFallback ==
  \A t \in Tasks :
    LET i == inv[t]
    IN  /\ ApplyAttempts(i) <= 2
        /\ Count(i.ops, "git apply") <= 1
        /\ Count(i.ops, "patch --fuzz") <= 1
        /\ Before(i.ops, "git apply", "patch --fuzz")
        /\ Count(i.ops, "patch --fuzz") = 1 <=> i.strict = "1"
        /\ Count(i.ops, "git apply") = 1 => i.mode = PATCHED
        /\ (i.strict = "0" \/ i.fuzzy = "0")
              => /\ i.failedAt \notin {"patch_not_applied", "strict_apply", "fuzzy_apply"}
                 /\ i.pc = "exec" \/ Did(i, "copy_to_container eval")

\* The strict attempt failed, the fuzzy one succeeded and the eval script ran.
C8_Witness ==
  \E t \in Tasks :
    /\ inv[t].strict = "1"
    /\ inv[t].fuzzy = "0"
    /\ Did(inv[t], "exec_run_with_timeout")

\* C9. No test execution after a failed patch: an invocation in which both apply
\* attempts returned non-zero never copies or runs the eval script, writes neither
\* eval.sh nor a test output file, and does no grading.
C9_NoExecAfterFailedPatch ==
  \A t \in Tasks :
    LET i == inv[t]
    IN  (i.strict = "1" /\ i.fuzzy = "1")
          => /\ ~Did(i, "copy_to_container eval")
             /\ ~Did(i, "exec_run_with_timeout")
             /\ i.writes \cap {"eval.sh", OutName(BASELINE), OutName(PATCHED), "report.json"} = {}
             /\ ~i.graded
             /\ i.pc \in {"finally", "returned"}

\* Both attempts failed and the invocation has returned.
C9_Witness ==
  \E t \in Tasks :
    /\ inv[t].pc = "returned"
    /\ inv[t].strict = "1"
    /\ inv[t].fuzzy = "1"
    /\ inv[t].failedAt = "patch_not_applied"

InProgress == { t \in Tasks : inv[t].pc \notin {"idle", "over"} }

\* C11. Concurrency bound: at every moment at most max_workers futures are
\* running and at most max_workers pipelines are executing, and a future that is
\* still pending has not begun its pipeline.
C11_ConcurrencyBound ==
  /\ Cardinality(Running) <= maxWorkers
  /\ Cardinality(InProgress) <= maxWorkers
  /\ InProgress \subseteq Running
  /\ \A t \in Pending : inv[t].pc = "idle"

\* With one worker, one task is at its eval script while the other one waits.
C11_Witness ==
  \E t, u \in Tasks :
    /\ maxWorkers = 1
    /\ fut[t] = "running"
    /\ inv[t].pc = "exec"
    /\ fut[u] = "pending"

\* The life of a future: submitted, taken by a worker, finished, yielded by
\* as_completed.
FutureStep(a, b) ==
  \/ a = "none" /\ b = "pending"
  \/ a = "pending" /\ b = "running"
  \/ a = "running" /\ b \in {"done", "raised"}
  \/ a = "done" /\ b = "collected"
  \/ a = "raised" /\ b = "caught"

\* C12. Scheduler drains: every submitted future is taken by a worker once and
\* only once, its pipeline ends and the future is collected; run_instances returns
\* only when all of them are, and main then makes the aggregate report, whatever
\* failed.
C12_SchedulerDrains ==
  /\ <>(mainPc = "reported")
  /\ \A t \in Tasks :
        (fut[t] = "pending") ~> (fut[t] \in {"collected", "caught"} /\ inv[t].pc = "over")
  /\ [](mainPc \in {"drained", "reported"}
          => \A t \in dataset : fut[t] \in {"collected", "caught"})
  /\ [][\A t \in Tasks : fut'[t] # fut[t] => FutureStep(fut[t], fut'[t])]_vars

\* The report is made after every submitted task's pipeline raised.
C12_Witness ==
  /\ mainPc = "reported"
  /\ dataset = Tasks
  /\ \A t \in Tasks : fut[t] = "caught"

\* A baseline invocation makes no apply attempt, does no grading and does not
\* write report.json.
NoVerdict(i) ==
  /\ ~Did(i, "git apply")
  /\ ~Did(i, "patch --fuzz")
  /\ i.strict = "na" /\ i.fuzzy = "na"
  /\ ~i.graded
  /\ "report.json" \notin i.writes

\* C13 as stated. Baseline mode produces no verdict: a baseline invocation never
\* attempts to apply the patch, never grades and never writes report.json; the
\* only files it writes are the baseline log and the baseline test output.
C13_BaselineOnlyLogAndOutput ==
  \A t \in Tasks :
    inv[t].mode = BASELINE
      => /\ NoVerdict(inv[t])
         /\ inv[t].writes \subseteq {LogName(BASELINE), OutName(BASELINE)}

\* C13, amended. A baseline invocation never attempts to apply the patch, never
\* grades and never writes report.json; besides patch.diff and eval.sh, which
\* every mode writes before copying them into the container, the only files it
\* writes are the baseline log and the baseline test output.
C13_BaselineNoVerdict ==
  \A t \in Tasks :
    inv[t].mode = BASELINE
      => /\ NoVerdict(inv[t])
         /\ inv[t].writes \subseteq
               {LogName(BASELINE), OutName(BASELINE), "patch.diff", "eval.sh"}
         /\ inv[t].pc = "returned" /\ ~inv[t].resumed => inv[t].ret = {}

\* A baseline invocation has run the eval script and returned.
C13_Witness ==
  \E t \in Tasks :
    /\ inv[t].mode = BASELINE
    /\ inv[t].pc = "returned"
    /\ inv[t].failedAt = None
    /\ OutName(BASELINE) \in inv[t].writes

\* The baseline run of run_instance_fail_to_pass has returned.
BaselineReturned(t) ==
  fut[t] = "running" /\ dual /\ inv[t].mode = BASELINE /\ inv[t].pc = "returned"

\* The files the patched run reads or returns.
PatchedRecords == { "report.json", LogName(PATCHED), OutName(PATCHED) }

\* C14. Dual-mode independence: when the baseline run has returned, whichever of
\* its steps failed (build, start, copy, exec, timeout), the patched run can start
\* and is the task's next step; it starts with fresh locals, rm_image as the
\* caller gave it, in an existing log directory, with no container left and with
\* the patched run's own records untouched by the baseline run.
C14_DualModeIndependence ==
  /\ [](\A t \in Tasks :
          BaselineReturned(t)
            => /\ ENABLED SecondCall(t)
               /\ fs[t].dir
               /\ ~docker[t].live
               /\ inv[t].writes \cap PatchedRecords = {}
               /\ inv[t].resumed <=> "report.json" \in fs[t].files)
  /\ [][\A t \in Tasks :
          (BaselineReturned(t) /\ inv'[t] # inv[t])
            => /\ inv'[t] = [NewInvocation(PATCHED, TRUE) EXCEPT !.again = inv'[t].again]
               /\ fut'[t] = "running"
               /\ fs'[t] = fs[t]
               /\ docker'[t] = docker[t]]_vars

\* The patched run has written its report after a baseline run that failed before
\* it could run the eval script.
C14_Witness ==
  \E t \in Tasks :
    /\ run = 1
    /\ dual
    /\ inv[t].mode = PATCHED
    /\ inv[t].pc = "returned"
    /\ "report.json" \in inv[t].writes
    /\ LogName(BASELINE) \in fs[t].files
    /\ OutName(BASELINE) \notin fs[t].files

\* C15. Dual-mode image retention: a baseline invocation has rm_image False and
\* never calls remove_image; no step taken while the baseline run is the task's
\* current invocation removes the task's image; and when the baseline run has
\* returned, its container is released and the image it built is still there for
\* the patched run.
C15_BaselineKeepsImage ==
  /\ [](\A t \in Tasks :
          inv[t].mode = BASELINE
            => /\ ~inv[t].rm_image
               /\ ~Did(inv[t], "remove_image")
               /\ BaselineReturned(t)
                     => /\ ~docker[t].live
                        /\ Did(inv[t], "start") => docker[t].image)
  /\ [][\A t \in Tasks :
          (inv[t].mode = BASELINE /\ docker[t].image) => docker'[t].image]_vars

\* The patched run starts with the image the baseline run built.
C15_Witness ==
  \E t \in Tasks :
    /\ run = 1
    /\ dual
    /\ inv[t].mode = PATCHED
    /\ inv[t].pc = "entry"
    /\ docker[t].image
    /\ ~docker[t].live

\* The cache levels under which instance images are kept from one run to the
\* next (the --cache_level option, lines 950-956).
RetainsInstanceImages(a) == a.cache_level = "instance"

\* C16. Image retention follows the cache-level policy: under a cache level that
\* retains instance images, a patched-mode invocation is called with rm_image
\* False, its cleanup does not call remove_image, and the image it built is
\* still there when it has returned.
C16_ImageRetentionPolicy ==
  \A t \in Tasks :
    (RetainsInstanceImages(args) /\ inv[t].mode = PATCHED)
      => /\ ~inv[t].rm_image
         /\ ~Did(inv[t], "remove_image")
         /\ (inv[t].pc = "returned" /\ Did(inv[t], "start")) => docker[t].image

\* C17. Grading on missing markers: get_pred_report returns a report for every
\* log text and test output text, and the report has resolved = false whenever
\* the log lacks the "patch applied" marker or the test output lacks the
\* exit-code marker.
C17_MissingMarkersUnresolved ==
  \A t \in Tasks :
    "report.json" \in fs[t].files
      => /\ fs[t].report # {}
         /\ \A r \in fs[t].report :
              (\/ APPLY_PATCH_PASS \notin fs[t].log[PATCHED]
               \/ \A k \in DOMAIN fs[t].out[PATCHED] :
                    fs[t].out[PATCHED][k] \notin {"OMNIGRIL_EXIT_CODE=0", "OMNIGRIL_EXIT_CODE=1"})
                 => ~r.resolved

\* The tasks that have a prediction whose patch is neither empty nor absent.
HasPatch == { t \in Tasks : preds[t] \notin {NoPrediction, "", None} }

JustAdmitted ==
  /\ mainPc \in {"running", "drained"}
  /\ \A t \in Tasks : fut[t] \in {"none", "pending"}

\* The records a completed task has: report.json, and the baseline test output
\* too when the run is a fail-to-pass one.
RequiredRecords ==
  IF dual THEN {"report.json", OutName(BASELINE)} ELSE {"report.json"}

\* C19. Resumable admission: a task that has a non-empty patch is left out of the
\* submitted set if and only if the records its run's mode requires are there,
\* report.json being the marker; so a task that a patched-only run completed is
\* not submitted by the next patched-only run.
C19_ResumableAdmission ==
  \A t \in HasPatch :
    JustAdmitted => (t \notin dataset <=> RequiredRecords \subseteq fs[t].files)

\* The predictions file holds entries, and none of them is for an instance of the
\* dataset.
NoPredictionMatches == args.foreign /\ prediction_ids = {}

\* The configurations that are fatal: an empty run id, a predictions file that
\* cannot be loaded, predictions of which none matches the dataset.
FatalConfiguration ==
  \/ args.run_id = ""
  \/ args.predictions_path \in {"bad_json", "other_suffix"}
  \/ NoPredictionMatches

\* C20. Fatal configuration errors: under a fatal configuration main stops with an
\* error: no future is ever submitted, no pipeline starts and no aggregate report
\* is made.
C20_FatalConfiguration ==
  FatalConfiguration
    => /\ mainPc \in {"start", "aborted"}
       /\ dataset = {}
       /\ \A t \in Tasks : fut[t] = "none" /\ inv[t].pc = "idle"
       /\ aggregate = NoBuckets

\* Task t's locals, files or engine state change in this step.
Touched(t) == inv'[t] # inv[t] \/ fs'[t] # fs[t] \/ docker'[t] # docker[t]

\* C21. Pipeline isolation: a step that writes a file of a task's log directory or
\* changes its container is a step of that task's own executing pipeline, and it
\* leaves the locals, files and containers of every other task as they were; an
\* invocation for a task begins only when no other invocation for it is
\* executing.
C21_PipelineIsolation ==
  [][\A t \in Tasks :
       /\ (fs'[t] # fs[t] \/ docker'[t] # docker[t])
            => /\ t \in InProgress
               /\ fut[t] = "running"
               /\ \A u \in Tasks \ {t} : ~Touched(u)
       /\ (inv'[t].pc = "entry" /\ inv[t].pc # "entry")
            => inv[t].pc \in {"idle", "returned"} /\ ~docker[t].live]_vars

\* Two pipelines execute at the same time, each with its own container and its
\* own patch file.
C21_Witness ==
  \E t, u \in Tasks :
    /\ t # u
    /\ docker[t].live /\ docker[u].live
    /\ "patch.diff" \in inv[t].writes
    /\ "patch.diff" \in inv[u].writes

\* C22. Resume after external termination: when a run that follows a terminated
\* one has computed its dataset, every task that has a non-empty patch and no
\* report.json is in it, so that it is executed again; and no step of any run,
\* nor the termination, removes or changes a report.json that is there.
C22_ResumeAfterTermination ==
  /\ [](\A t \in HasPatch :
          (run > 1 /\ JustAdmitted /\ "report.json" \notin fs[t].files) => t \in dataset)
  /\ [][\A t \in Tasks :
          "report.json" \in fs[t].files
            => "report.json" \in fs'[t].files /\ fs'[t].report = fs[t].report]_vars

\* In a run on a fresh output directory: the task was submitted and its patched
\* run ended before it had a test output, for another reason than a patch that
\* does not apply.
EngineFailure(t) ==
  /\ t \in dataset
  /\ ~PatchFailed(t)
  /\ OutName(PATCHED) \notin fs[t].files

\* The stored report of task t says resolved.
StoredResolved(t) == \E r \in fs[t].report : r.resolved

\* C23. Bucket classification rule: in the aggregate report a task is incomplete
\* iff it has no prediction, empty_patch iff its patch is empty or None, resolved
\* (unresolved) iff it has a non-empty patch and a report.json with resolved true
\* (false), and error iff it has a non-empty patch and no report.json because of
\* a container or engine failure, not because of a patch that does not apply or
\* a failed grading.
C23_BucketRule ==
  mainPc = "reported" =>
    \A t \in Tasks :
      LET hasReport == "report.json" \in fs[t].files
      IN  /\ t \in aggregate.incomplete_ids <=> preds[t] = NoPrediction
          /\ t \in aggregate.empty_patch_ids <=> preds[t] \in {"", None}
          /\ t \in aggregate.resolved_ids
                <=> (t \in HasPatch /\ hasReport /\ StoredResolved(t))
          /\ t \in aggregate.unresolved_ids
                <=> (t \in HasPatch /\ hasReport /\ ~StoredResolved(t))
          /\ t \in aggregate.error_ids
                <=> (t \in HasPatch /\ ~hasReport /\ EngineFailure(t))

\* C24. Reconcile after drain: the step that computes the aggregate report is
\* taken when no pipeline is executing and every submitted future has been
\* collected; from the moment run_instances has returned no file
\* of any task changes any more.
C24_ReconcileAfterDrain ==
  /\ [](mainPc \in {"drained", "reported"}
          => /\ InProgress = {}
             /\ Running = {} /\ Pending = {}
             /\ \A t \in dataset : inv[t].pc = "over")
  /\ [][(mainPc \in {"drained", "reported"}) => fs' = fs]_vars
  /\ [][(aggregate' # aggregate)
          => /\ mainPc = "drained"
             /\ \A t \in dataset : fut[t] \in {"collected", "caught"} /\ inv[t].pc = "over"]_vars

\* The report is made after two pipelines that both wrote a report.json.
C24_Witness ==
  /\ mainPc = "reported"
  /\ dataset = Tasks
  /\ \A t \in Tasks : "report.json" \in fs[t].files /\ fut[t] = "collected"
  /\ aggregate.completed_ids = Tasks

\* C25. Cleanup image removal follows the caller's request: an invocation that
\* got past the report.json check calls remove_image at most once and only after
\* cleanup_container, and when it has returned it has called remove_image if and
\* only if it was called with rm_image true, whichever step failed.
C25_RemovalAsRequested ==
  \A t \in Tasks :
    LET i == inv[t]
    IN  /\ Count(i.ops, "remove_image") <= 1
        /\ Before(i.ops, "cleanup_container", "remove_image")
        /\ Did(i, "remove_image") => i.rm_image /\ i.pc = "returned"
        /\ (i.pc = "returned" /\ ~i.resumed)
              => /\ Did(i, "remove_image") <=> i.rm_image
                 /\ i.rm_image => i.ops[Len(i.ops)] = "remove_image"
                 /\ ~i.rm_image => i.ops[Len(i.ops)] = "cleanup_container"

\* A baseline run that failed at the eval script has returned without removing
\* the image.
C25_Witness ==
  \E t \in Tasks :
    /\ inv[t].pc = "returned"
    /\ inv[t].mode = BASELINE
    /\ inv[t].failedAt = "exec"
    /\ ~inv[t].rm_image
    /\ Did(inv[t], "cleanup_container")
    /\ ~Did(inv[t], "remove_image")

\* The patch texts that stand for "no patch".
Sentinels == {"", None, NonePatch}

\* C26. Patch stage skip: an invocation in baseline mode, and an invocation in
\* patched mode whose candidate patch is the empty or absent sentinel, runs
\* neither the strict nor the fuzzy apply command and does not end in the
\* patch-failure handler.
C26_PatchStageSkip ==
  \A t \in Tasks :
    (inv[t].mode = BASELINE \/ (inv[t].mode = PATCHED /\ preds[t] \in Sentinels))
      => /\ ~Did(inv[t], "git apply")
         /\ ~Did(inv[t], "patch --fuzz")
         /\ inv[t].strict = "na" /\ inv[t].fuzzy = "na"
         /\ inv[t].failedAt \notin {"patch_not_applied", "strict_apply", "fuzzy_apply"}

\* C27. Combined diagnostics: when both apply attempts failed, the log of the
\* invocation, where the failure line and the message of the EvaluationError
\* are written, holds the output of the strict attempt and the output of the
\* fuzzy attempt.
C27_CombinedDiagnostics ==
  \A t \in Tasks :
    (inv[t].strict = "1" /\ inv[t].fuzzy = "1" /\ inv[t].pc \in {"finally", "returned"})
      => /\ APPLY_PATCH_FAIL \in fs[t].log[inv[t].mode]
         /\ StrictOutput \in fs[t].log[inv[t].mode]
         /\ FuzzyOutput \in fs[t].log[inv[t].mode]

\* C28. Completed set consistency: in the aggregate report of make_run_report the
\* completed ids are the disjoint union of the resolved and the unresolved ids,
\* completed_instances is resolved_instances plus unresolved_instances, and no
\* completed id is an error, an empty-patch or an incomplete id.
C28_CompletedConsistency ==
  mainPc = "reported"
    => /\ aggregate.completed_ids = aggregate.resolved_ids \cup aggregate.unresolved_ids
       /\ aggregate.resolved_ids \cap aggregate.unresolved_ids = {}
       /\ Cardinality(aggregate.completed_ids)
            = Cardinality(aggregate.resolved_ids) + Cardinality(aggregate.unresolved_ids)
       /\ aggregate.completed_ids
            \cap (aggregate.error_ids \cup aggregate.empty_patch_ids
                    \cup aggregate.incomplete_ids) = {}

C28_Witness ==
  /\ mainPc = "reported"
  /\ aggregate.resolved_ids # {}
  /\ aggregate.unresolved_ids # {}
  /\ aggregate.error_ids = {}

\* The invocation of task t holds a container it has not released yet.
Holds(t) == inv[t].container # None /\ inv[t].pc \notin {"idle", "returned", "raised", "over"}

\* C29. One live container per task: a task's live container is the one its
\* current invocation holds, an invocation acquires a container only when the
\* task has no live container, and in dual mode the baseline run's container is
\* released when the baseline run has returned, before the patched run starts.
C29_OneLiveContainer ==
  /\ [](\A t \in Tasks : docker[t].live => Holds(t))
  /\ [](\A t \in Tasks : BaselineReturned(t) => ~docker[t].live)
  /\ [][\A t \in Tasks :
          (inv[t].container = None /\ inv'[t].container # None) => ~docker[t].live]_vars

C29_Witness ==
  \E t \in Tasks :
    /\ dual
    /\ BASELINE \in ranOk[t]
    /\ inv[t].mode = PATCHED
    /\ Holds(t)
    /\ docker[t].live
    /\ \E u \in Tasks \ {t} : Holds(u) /\ docker[u].live

====
